---- MODULE Spec2Model ----
(***************************************************************************)
(* A model of the windows_automation package: the Element Client           *)
(* (WindowsClient: locator resolution, bounded wait, window switching),    *)
(* the Session Facade (WindowsDriver: quit / scoped cleanup) and the       *)
(* Capability Builder (get_windows_capabilities).                          *)
(*                                                                         *)
(* Time is counted in seconds; WebDriverWait polls once per tick and a     *)
(* remote call itself takes no time.                                       *)
(***************************************************************************)
EXTENDS Integers, Sequences, FiniteSets, TLC

VARIABLES
    \* ---- WindowsClient.find_element / wait_for_element
    property_map,   \* the argument: json.loads(obj["propertyMap"])
    session,        \* the remote session: target -> how it answers a find
    fpc,            \* "ready" | "find_element" | "wait_for_element"
    timeout,        \* wait_for_element's timeout argument: <<>> is None, <<n>> is n
    fret,           \* outcome of the call, with the remote calls it made
    \* ---- WindowsDriver (the facade): quit and scoped cleanup
    service,        \* self.service: "none" | "running" | "stopped"
    remote,         \* the remote session behind self.driver: "open" | "closed"
    qop,            \* the last facade operation: "none" | "quit" | "with"
    qin,            \* what happened during it: [body, dq, ss]
    qcalls,         \* the release calls it made, in order
    qret,           \* its outcome for the caller
    nops,           \* number of facade operations so far
    nquits,         \* number of quit() calls so far, the current one included
    \* ---- WindowsClient.switch_to_window
    windows,        \* the session's open windows, in the order it lists them
    focus,          \* the handle the session is switched to (0: none)
    window_handles, \* self.window_handles: name -> handle
    current_window, \* self.current_window
    wop,            \* the last call: its name, and the registry and windows it met
    wcalls,         \* the remote calls it made, in order
    wret,           \* its outcome for the caller
    \* ---- get_windows_capabilities
    req,            \* the configuration
    cpc,            \* "ready" | "done" | "again"
    cret,           \* what it returned: [caps, hub_url]
    cagain,         \* what it returned when its own output was fed back in
    \* ---- create_windows_driver
    kpc,            \* "ready" | "done"
    kin,            \* what the remote end did: [remoteOk, waitOk]
    kcalls,         \* the remote calls it made, in order
    kret,           \* its outcome for the caller: [kind, exc, facade]
    ksession        \* the remote session: "none" | "open" | "closed"

findVars == <<property_map, session, fpc, timeout, fret>>
quitVars == <<service, remote, qop, qin, qcalls, qret, nops, nquits>>

winVars == <<windows, focus, window_handles, current_window, wop, wcalls, wret>>

capVars == <<req, cpc, cret, cagain>>

createVars == <<kpc, kin, kcalls, kret, ksession>>
vars == <<findVars, quitVars, winVars, capVars, createVars>>

-----------------------------------------------------------------------------
(* Bounds of the model                                                     *)

MaxLocators == 2    \* longest locator list
MaxAppear == 1      \* latest tick at which an element may appear
MaxTimeout == 2     \* largest explicit timeout argument, in ticks
MaxOps == 3         \* facade operations in one run
MaxWindows == 2     \* most windows open in the session
MaxCaps == 2        \* most entries of desiredCapabilities

-----------------------------------------------------------------------------
(* Python values and string methods                                        *)

None == "<None>"

\* dict.get(k, default)
Get(d, k, default) == IF k \in DOMAIN d THEN d[k] ELSE default

\* (variant: `if locator_value is None`, which lets an empty string through)
FalsyOnlyNone(v) == v = None

\* truthiness of a str-or-None value: `not v`
Falsy(v) == v = None \/ v = ""

UpperAlpha == "ABCDEFGHIJKLMNOPQRSTUVWXYZ"
LowerAlpha == "abcdefghijklmnopqrstuvwxyz"

LowerChar(c) ==
    IF \E i \in 1..Len(UpperAlpha) : SubSeq(UpperAlpha, i, i) = c
    THEN LET i == CHOOSE j \in 1..Len(UpperAlpha) : SubSeq(UpperAlpha, j, j) = c
         IN  SubSeq(LowerAlpha, i, i)
    ELSE c

\* str.lower()
RECURSIVE Lower(_)
Lower(s) ==
    IF Len(s) = 0 THEN ""
    ELSE LowerChar(SubSeq(s, 1, 1)) \o Lower(SubSeq(s, 2, Len(s)))

\* `sub in s`
Contains(s, sub) ==
    \E i \in 1..(Len(s) - Len(sub) + 1) : SubSeq(s, i, i + Len(sub) - 1) = sub

-----------------------------------------------------------------------------
(* The remote session as seen by find_element                              *)

\* the if/elif chain of find_element and wait_for_element: locator kind ->
\* AppiumBy strategy; None when no branch matches
ByOf(locator_type) ==
    CASE locator_type = "name"             -> "name"
      [] locator_type = "id"               -> "id"
      [] locator_type = "xpath"            -> "xpath"
      [] locator_type = "class_name"       -> "class name"
      [] locator_type = "accessibility_id" -> "accessibility id"
      [] OTHER                             -> None

\* driver.find_element(by, value) at tick t: "found", or the exception raised
\* (selenium's exception classes carry the prefix "selenium."; a target the
\* session does not know, such as an empty selector, is rejected)
RemoteFind(sess, target, t) ==
    IF target \notin DOMAIN sess THEN "selenium.WebDriverException"
    ELSE IF sess[target].st = "error" THEN "selenium.WebDriverException"
    ELSE IF sess[target].st = "appears" /\ sess[target].at <= t THEN "found"
    ELSE "selenium.NoSuchElementException"

NoElement == <<>>

Returned(target, i, calls, log, t) ==
    [kind |-> "return", exc |-> "", element |-> target, index |-> i,
     payload |-> <<>>, calls |-> calls, log |-> log, elapsed |-> t]

Raised(exc, payload, calls, log, t) ==
    [kind |-> "raise", exc |-> exc, element |-> NoElement, index |-> 0,
     payload |-> payload, calls |-> calls, log |-> log, elapsed |-> t]

-----------------------------------------------------------------------------
(* WindowsClient.find_element                                              *)

RECURSIVE FindLoop(_, _, _, _, _)
FindLoop(locators, sess, i, calls, log) ==
    IF i > Len(locators)
    THEN Raised("NoSuchElementException", locators, calls, log, 0)
    ELSE LET locator == locators[i]
             locator_type == Lower(Get(locator, "type", ""))
             locator_value == Get(locator, "value", None)
             target == <<ByOf(locator_type), locator_value>>
         IN  IF Falsy(locator_value)
             THEN FindLoop(locators, sess, i + 1, calls, log)
             ELSE IF ByOf(locator_type) = None
             THEN FindLoop(locators, sess, i + 1, calls, log)
             ELSE IF RemoteFind(sess, target, 0) = "found"
             THEN Returned(target, i, Append(calls, target), log, 0)
             ELSE FindLoop(locators, sess, i + 1, Append(calls, target),
                           Append(log, RemoteFind(sess, target, 0)))

\* (variant: the candidates are tried last to first)
find_element_reversed(pmap, sess) ==
    LET l == Get(pmap, "locators", <<>>)
        rev == [i \in 1..Len(l) |-> l[Len(l) + 1 - i]]
        r == FindLoop(rev, sess, 1, <<>>, <<>>)
    IN  IF r.kind = "return"
        THEN [r EXCEPT !.index = Len(l) + 1 - r.index]
        ELSE [r EXCEPT !.payload = l]

\* (variant: no try/except around the remote find, the first failure escapes)
find_element_propagates(pmap, sess) ==
    LET r == FindLoop(Get(pmap, "locators", <<>>), sess, 1, <<>>, <<>>)
    IN  IF Len(r.log) > 0
        THEN Raised(r.log[1], <<>>, <<r.calls[1]>>, <<>>, 0)
        ELSE r

find_element(pmap, sess) ==
    FindLoop(Get(pmap, "locators", <<>>), sess, 1, <<>>, <<>>)

-----------------------------------------------------------------------------
(* WindowsClient.wait_for_element                                          *)

wait_time == 30     \* WindowsClient.__init__'s default

\* WebDriverWait(self.driver, timeout).until(presence_of_element_located(target))
\* started at tick t with end_time = start + timeout: poll; a find that raises
\* anything but selenium's NoSuchElementException leaves the wait at once; the
\* wait gives up at the first poll later than end_time
\* (variant: a single poll, no waiting)
UntilOnce(sess, target, t, end_time, calls) ==
    LET r == RemoteFind(sess, target, t)
        made == Append(calls, target)
    IN  IF r = "found" THEN [res |-> "found", t |-> t, calls |-> made]
        ELSE IF r # "selenium.NoSuchElementException"
        THEN [res |-> r, t |-> t, calls |-> made]
        ELSE [res |-> "selenium.TimeoutException", t |-> t, calls |-> made]

RECURSIVE Until(_, _, _, _, _)
Until(sess, target, t, end_time, calls) ==
    LET r == RemoteFind(sess, target, t)
        made == Append(calls, target)
    IN  IF r = "found" THEN [res |-> "found", t |-> t, calls |-> made]
        ELSE IF r # "selenium.NoSuchElementException"
        THEN [res |-> r, t |-> t, calls |-> made]
        ELSE IF t > end_time
        THEN [res |-> "selenium.TimeoutException", t |-> t, calls |-> made]
        ELSE Until(sess, target, t + 1, end_time, made)

RECURSIVE WaitLoop(_, _, _, _, _, _, _)
WaitLoop(locators, sess, tmo, i, calls, log, t) ==
    IF i > Len(locators)
    THEN Raised("NoSuchElementException", locators, calls, log, t)
    ELSE LET locator == locators[i]
             locator_type == Lower(Get(locator, "type", ""))
             locator_value == Get(locator, "value", None)
             target == <<ByOf(locator_type), locator_value>>
             w == Until(sess, target, t, t + tmo, calls)
         IN  IF Falsy(locator_value)
             THEN WaitLoop(locators, sess, tmo, i + 1, calls, log, t)
             ELSE IF ByOf(locator_type) = None
             THEN WaitLoop(locators, sess, tmo, i + 1, calls, log, t)
             ELSE IF w.res = "found"
             THEN Returned(target, i, w.calls, log, w.t)
             ELSE WaitLoop(locators, sess, tmo, i + 1, w.calls,
                           Append(log, w.res), w.t)

\* the timeout in force: the argument, or self.wait_time when it is None
EffectiveTimeout(tmoArg) == IF tmoArg = <<>> THEN wait_time ELSE tmoArg[1]

wait_for_element(pmap, tmoArg, sess) ==
    WaitLoop(Get(pmap, "locators", <<>>), sess, EffectiveTimeout(tmoArg),
             1, <<>>, <<>>, 0)

-----------------------------------------------------------------------------
(* WindowsDriver.quit, __enter__ / __exit__                                *)

Call(name, threw) == [call |-> name, threw |-> threw]

\* (variant: driver.quit() outside any try, so its exception leaves quit and
\* service.stop() is not reached)
quit_unguarded(svc, dq, ss) ==
    IF dq
    THEN [calls |-> <<Call("driver.quit", TRUE)>>, exc |-> "WebDriverException"]
    ELSE [calls |-> <<Call("driver.quit", FALSE)>>
                        \o (IF svc # "none"
                            THEN <<Call("service.stop", ss)>> ELSE <<>>),
          exc |-> ""]

\* quit(): self.driver is set by __init__ and never cleared, so driver.quit()
\* is always called; dq / ss say whether driver.quit() / service.stop() throw.
\* Both excepts log and go on.
quit(svc, dq, ss) ==
    [calls |-> <<Call("driver.quit", dq)>>
                   \o (IF svc # "none" THEN <<Call("service.stop", ss)>> ELSE <<>>),
     exc |-> ""]

\* the with statement around a body that ends with exception `body` ("" for
\* none): __exit__ calls quit() and returns None, which suppresses nothing; an
\* exception leaving __exit__ would replace the body's
with_scope(svc, body, dq, ss) ==
    LET q == quit(svc, dq, ss)
    IN  [calls |-> q.calls, exc |-> IF q.exc # "" THEN q.exc ELSE body]

Outcome(exc) == [kind |-> IF exc = "" THEN "return" ELSE "raise", exc |-> exc]

\* the resources after the release calls: a call that threw released nothing
RemoteAfter(rem, calls) ==
    IF \E k \in 1..Len(calls) : calls[k] = Call("driver.quit", FALSE)
    THEN "closed" ELSE rem

ServiceAfter(svc, calls) ==
    IF \E k \in 1..Len(calls) : calls[k] = Call("service.stop", FALSE)
    THEN "stopped" ELSE svc

QuitIdle ==
    /\ service = "none"
    /\ remote = "open"
    /\ qop = "none"
    /\ qin = [body |-> "", dq |-> FALSE, ss |-> FALSE]
    /\ qcalls = <<>>
    /\ qret = Outcome("")
    /\ nops = 0
    /\ nquits = 0

-----------------------------------------------------------------------------
(* WindowsDriver's delegating actions and the WindowsClient operations     *)

FacadeOps == {"click", "enter_text", "get_text", "is_visible", "take_screenshot"}

\* what the session behind self.driver answers: once it is closed every
\* command is rejected
FacadeSession(rem) ==
    IF rem = "open"
    THEN [t \in {<<"name", "A">>, <<"id", "A">>} |->
            IF t[1] = "name" THEN [st |-> "appears", at |-> 0]
            ELSE [st |-> "never", at |-> 0]]
    ELSE [t \in {<<"name", "A">>, <<"id", "A">>} |-> [st |-> "error", at |-> 0]]

OpResult(calls, exc, value) == [calls |-> calls, exc |-> exc, value |-> value]

\* the driver.find_element calls of a lookup, each with whether it threw
FindCalls(r) ==
    [k \in 1..Len(r.calls) |->
        Call("driver.find_element", ~(r.kind = "return" /\ k = Len(r.calls)))]

\* WindowsClient.click / enter_text / get_text / is_visible / take_screenshot
client_op(op, obj, filename, rem) ==
    LET r == find_element(obj, FacadeSession(rem))
        found == r.kind = "return"
    IN  CASE op = "click" ->
                IF found
                THEN OpResult(Append(FindCalls(r), Call("element.click", FALSE)), "", None)
                ELSE OpResult(FindCalls(r), r.exc, None)
          [] op = "enter_text" ->
                IF found
                THEN OpResult(FindCalls(r) \o <<Call("element.clear", FALSE),
                                                Call("element.send_keys", FALSE)>>, "", None)
                ELSE OpResult(FindCalls(r), r.exc, None)
          [] op = "get_text" ->
                IF found
                THEN OpResult(Append(FindCalls(r), Call("element.text", FALSE)), "", "text")
                ELSE OpResult(FindCalls(r), r.exc, None)
          [] op = "is_visible" ->
                IF found
                THEN OpResult(Append(FindCalls(r), Call("element.is_displayed", FALSE)),
                              "", "True")
                ELSE OpResult(FindCalls(r), "", "False")
          [] op = "take_screenshot" ->
                IF filename = None
                THEN OpResult(<<>>, "TypeError", None)
                ELSE IF rem = "open"
                THEN OpResult(<<Call("driver.save_screenshot", FALSE)>>, "",
                              "screenshots/" \o filename)
                ELSE OpResult(<<Call("driver.save_screenshot", TRUE)>>,
                              "selenium.WebDriverException", None)

\* positional arguments the facade method hands to self.client.<op>
PositionalPassed(op) ==
    CASE op = "click" -> 2
      [] op = "enter_text" -> 4
      [] op = "get_text" -> 2
      [] op = "is_visible" -> 2
      [] op = "take_screenshot" -> 1

\* positional parameters WindowsClient.<op> takes besides self
PositionalAccepted(op) ==
    CASE op = "click" -> 1
      [] op = "enter_text" -> 2
      [] op = "get_text" -> 1
      [] op = "is_visible" -> 1
      [] op = "take_screenshot" -> 1

\* WindowsDriver.click / enter_text / get_text / is_visible / take_screenshot:
\* return self.client.<op>(...); a call with too many positional arguments
\* raises TypeError before the client method runs
facade_op(op, obj, filename, rem) ==
    IF PositionalPassed(op) > PositionalAccepted(op)
    THEN OpResult(<<>>, "TypeError", None)
    ELSE client_op(op, obj, filename, rem)

-----------------------------------------------------------------------------
(* WindowsClient.switch_to_window                                          *)

NoWindow == 0

IsOpen(wins, h) == \E i \in 1..Len(wins) : wins[i].handle = h

\* (variant: the title test without .lower())
TitleMatchesCaseSensitive(window_name, title) == Contains(title, window_name)

\* window_name.lower() in self.driver.title.lower()
TitleMatches(window_name, title) == Contains(Lower(title), Lower(window_name))

\* self.window_handles[window_name] = handle
Register(reg, window_name, handle) ==
    [n \in DOMAIN reg \cup {window_name} |->
        IF n = window_name THEN handle ELSE reg[n]]

SwitchResult(reg, cur, foc, calls, exc) ==
    [reg |-> reg, cur |-> cur, focus |-> foc, calls |-> calls, exc |-> exc]

\* the for loop over self.driver.window_handles, from the i-th handle on
RECURSIVE ScanWindows(_, _, _, _, _, _, _)
ScanWindows(window_name, reg, cur, wins, foc, i, calls) ==
    IF i > Len(wins)
    THEN SwitchResult(reg, cur, foc, calls, "NoSuchWindowException")
    ELSE LET handle == wins[i].handle
             made == calls \o <<<<"switch_to.window", handle>>, <<"title", handle>>>>
         IN  IF TitleMatches(window_name, wins[i].title)
             THEN SwitchResult(Register(reg, window_name, handle), window_name,
                               handle, made, "")
             ELSE ScanWindows(window_name, reg, cur, wins, handle, i + 1, made)

\* (variant: no registry lookup, every call scans)
switch_to_window_rescan(window_name, reg, cur, wins, foc) ==
    ScanWindows(window_name, reg, cur, wins, foc, 1, <<<<"window_handles", NoWindow>>>>)

\* switch_to_window(window_name); switching to a handle that is no longer open
\* raises selenium's own NoSuchWindowException and leaves the session where it was
switch_to_window(window_name, reg, cur, wins, foc) ==
    IF window_name \in DOMAIN reg
    THEN IF IsOpen(wins, reg[window_name])
         THEN SwitchResult(reg, cur, reg[window_name],
                           <<<<"switch_to.window", reg[window_name]>>>>, "")
         ELSE SwitchResult(reg, cur, foc,
                           <<<<"switch_to.window", reg[window_name]>>>>,
                           "selenium.NoSuchWindowException")
    ELSE ScanWindows(window_name, reg, cur, wins, foc, 1,
                     <<<<"window_handles", NoWindow>>>>)

EmptyRegistry == [n \in {} |-> NoWindow]

NoSwitch == [name |-> None, pre |-> EmptyRegistry, wins |-> <<>>, fresh |-> FALSE]

WinIdle ==
    /\ windows = <<>>
    /\ focus = NoWindow
    /\ window_handles = EmptyRegistry
    /\ current_window = None
    /\ wop = NoSwitch
    /\ wcalls = <<>>
    /\ wret = Outcome("")

-----------------------------------------------------------------------------
(* get_windows_capabilities                                                *)
(* WindowsOptions is taken as a plain capability mapping, as the code uses *)
(* it: set_capability(k, v) stores v under k, options.app = v stores v     *)
(* under "app", and a new WindowsOptions() holds nothing.                  *)

\* str.startswith
StartsWith(s, prefix) ==
    Len(s) >= Len(prefix) /\ SubSeq(s, 1, Len(prefix)) = prefix

\* str.replace(old, ''): every occurrence of old, left to right, is removed
RECURSIVE RemoveAll(_, _)
RemoveAll(s, old) ==
    IF Len(s) < Len(old) \/ Len(old) = 0 THEN s
    ELSE IF StartsWith(s, old)
    THEN RemoveAll(SubSeq(s, Len(old) + 1, Len(s)), old)
    ELSE SubSeq(s, 1, 1) \o RemoveAll(SubSeq(s, 2, Len(s)), old)

NoCaps == [k \in {} |-> ""]

\* options.set_capability(name, value)
SetCapability(caps, name, value) ==
    [k \in DOMAIN caps \cup {name} |-> IF k = name THEN value ELSE caps[k]]

\* the body of `for key, value in capabilities.items()`
ApplyDesired(caps, key, value) ==
    LET clean_key == RemoveAll(key, "appium:")
    IN  IF clean_key = "appTopLevelWindow"
        THEN SetCapability(caps, "appTopLevelWindow", value)
        ELSE IF StartsWith(clean_key, "ms:")
        THEN SetCapability(caps, clean_key, value)
        ELSE SetCapability(caps, clean_key, value)

RECURSIVE ApplyAllDesired(_, _, _)
ApplyAllDesired(caps, capabilities, i) ==
    IF i > Len(capabilities) THEN caps
    ELSE ApplyAllDesired(ApplyDesired(caps, capabilities[i].key, capabilities[i].value),
                         capabilities, i + 1)

\* any(sub in k for k in options.capabilities)
AnyKeyContains(caps, sub) == \E k \in DOMAIN caps : Contains(k, sub)

\* any(sub in k.lower() for k in options.capabilities)
AnyLowerKeyContains(caps, sub) == \E k \in DOMAIN caps : Contains(Lower(k), sub)

\* "Set default capabilities if not provided"
WithDefaults(caps) ==
    LET c1 == IF ~AnyKeyContains(caps, "automationName")
              THEN SetCapability(caps, "automationName", "Windows") ELSE caps
        c2 == IF "platformName" \notin DOMAIN c1
              THEN SetCapability(c1, "platformName", "Windows") ELSE c1
    IN  IF ~AnyKeyContains(c2, "deviceName")
        THEN SetCapability(c2, "deviceName", "WindowsPC") ELSE c2

\* "Ensure we have either app or appTopLevelWindow"
EnsureApp(caps, app_path) ==
    LET has_app == AnyLowerKeyContains(caps, "app")
        has_app_top_level == AnyLowerKeyContains(caps, "apptoplevelwindow")
    IN  IF ~has_app /\ ~has_app_top_level /\ app_path # ""
        THEN SetCapability(caps, "app", app_path)
        ELSE caps

get_windows_capabilities(r) ==
    LET desktopDevice == Get(r, "desktopDevice", <<>>)
        hub_url == Get(Get(desktopDevice, "grid", <<>>), "hubUrl", "http://127.0.0.1:4721")
        app_path == Get(desktopDevice, "appPath", "")
        capabilities == Get(desktopDevice, "desiredCapabilities", <<>>)
        options == IF app_path # "" THEN SetCapability(NoCaps, "app", app_path)
                   ELSE NoCaps
    IN  [caps |-> EnsureApp(WithDefaults(ApplyAllDesired(options, capabilities, 1)),
                            app_path),
         hub_url |-> hub_url]

\* dict insertion: a key that is already there keeps its place
AppendNew(order, k) ==
    IF \E i \in 1..Len(order) : order[i] = k THEN order ELSE Append(order, k)

RECURSIVE KeysAfterDesired(_, _, _)
KeysAfterDesired(order, capabilities, i) ==
    IF i > Len(capabilities) THEN order
    ELSE KeysAfterDesired(AppendNew(order, RemoveAll(capabilities[i].key, "appium:")),
                          capabilities, i + 1)

\* the keys of options.capabilities in insertion order: app from appPath, the
\* caller's keys as they were set, then the defaults that were added
KeyOrder(r, caps) ==
    LET desktopDevice == Get(r, "desktopDevice", <<>>)
        app_path == Get(desktopDevice, "appPath", "")
        capabilities == Get(desktopDevice, "desiredCapabilities", <<>>)
        o0 == IF app_path # "" THEN <<"app">> ELSE <<>>
        o1 == KeysAfterDesired(o0, capabilities, 1)
        o2 == IF "automationName" \in DOMAIN caps THEN AppendNew(o1, "automationName") ELSE o1
        o3 == IF "platformName" \in DOMAIN caps THEN AppendNew(o2, "platformName") ELSE o2
        o4 == IF "deviceName" \in DOMAIN caps THEN AppendNew(o3, "deviceName") ELSE o3
    IN  IF "app" \in DOMAIN caps THEN AppendNew(o4, "app") ELSE o4

\* dict(options.capabilities).items()
Items(r, caps) ==
    LET order == KeyOrder(r, caps)
    IN  [i \in 1..Len(order) |-> [key |-> order[i], value |-> caps[order[i]]]]

\* the configuration r with caps as its desiredCapabilities
FedBack(r, caps) ==
    LET desktopDevice == Get(r, "desktopDevice", <<>>)
        kept == {k \in DOMAIN desktopDevice : k # "desiredCapabilities"}
    IN  [desktopDevice |->
            [k \in kept \cup {"desiredCapabilities"} |->
                IF k = "desiredCapabilities" THEN Items(r, caps)
                ELSE desktopDevice[k]]]

CapIdle ==
    /\ req = <<>>
    /\ cpc = "ready"
    /\ cret = [caps |-> NoCaps, hub_url |-> ""]
    /\ cagain = [caps |-> NoCaps, hub_url |-> ""]

-----------------------------------------------------------------------------
(* create_windows_driver / create_remote_windows_driver                    *)

IMPLICIT_WAIT == 60

NoFacade == <<>>

Created(calls, exc, facade) == [calls |-> calls, exc |-> exc, facade |-> facade]

\* WindowsDriver(req, driver, service, driver_type, implicit_wait): the fields
\* are set, then self.driver.implicitly_wait(implicit_wait) is called
WindowsDriverInit(r, driver, svc, driver_type, implicit_wait, waitOk) ==
    IF waitOk
    THEN Created(<<Call("driver.implicitly_wait", FALSE)>>, "",
                 [driver |-> driver, service |-> svc, driver_type |-> driver_type,
                  req |-> r, implicit_wait |-> implicit_wait])
    ELSE Created(<<Call("driver.implicitly_wait", TRUE)>>,
                 "selenium.WebDriverException", NoFacade)

\* webdriver.Remote(...) opens the session or raises; then the facade is built;
\* `except Exception: log; raise`
create_remote_windows_driver(r, options, hub_url, remoteOk, waitOk) ==
    IF ~remoteOk
    THEN Created(<<Call("webdriver.Remote", TRUE)>>, "selenium.WebDriverException",
                 NoFacade)
    ELSE LET w == WindowsDriverInit(r, "session", None, "WindowsDriver",
                                    IMPLICIT_WAIT, waitOk)
         IN  Created(<<Call("webdriver.Remote", FALSE)>> \o w.calls, w.exc, w.facade)

\* not driver or not hasattr(driver, 'driver') or not driver.driver
InvalidFacade(d) ==
    \/ d = NoFacade
    \/ "driver" \notin DOMAIN d
    \/ d.driver = None

create_windows_driver(r, remoteOk, waitOk) ==
    LET g == get_windows_capabilities(r)
        d == create_remote_windows_driver(r, g.caps, g.hub_url, remoteOk, waitOk)
    IN  IF d.exc # "" THEN d
        ELSE IF InvalidFacade(d.facade)
        THEN Created(d.calls, "Exception", NoFacade)
        ELSE d

\* the remote session after the calls: opened by a successful webdriver.Remote,
\* released by a successful driver.quit
SessionAfter(calls) ==
    IF \E k \in 1..Len(calls) : calls[k] = Call("webdriver.Remote", FALSE)
    THEN RemoteAfter("open", calls)
    ELSE "none"

CreateIdle ==
    /\ kpc = "ready"
    /\ kin = [remoteOk |-> TRUE, waitOk |-> TRUE]
    /\ kcalls = <<>>
    /\ kret = [kind |-> "return", exc |-> "", facade |-> NoFacade]
    /\ ksession = "none"

-----------------------------------------------------------------------------
(* Inputs                                                                  *)

LocatorTypes == {"name", "ID", "bogus"}
LocatorValues == {"A", ""}

LocatorEntries ==
    [type : LocatorTypes, value : LocatorValues]
        \cup {[type |-> "name"]} \cup {[value |-> "A"]}

LocatorLists ==
    UNION {[1..n -> LocatorEntries] : n \in 0..MaxLocators}

PropertyMaps == {[locators |-> l] : l \in LocatorLists} \cup {<<>>}

Targets == {<<"name", "A">>, <<"id", "A">>}

Responses ==
    {[st |-> "error", at |-> 0], [st |-> "never", at |-> 0]}
        \cup {[st |-> "appears", at |-> n] : n \in 0..MaxAppear}

Sessions == [Targets -> Responses]

Timeouts == {<<>>} \cup {<<n>> : n \in 0..MaxTimeout}

NoRet == Raised("", <<>>, <<>>, <<>>, 0)

-----------------------------------------------------------------------------
InitFind ==
    /\ property_map \in PropertyMaps
    /\ session \in Sessions
    /\ fpc = "ready"
    /\ timeout = <<>>
    /\ fret = NoRet
    /\ QuitIdle
    /\ WinIdle
    /\ CapIdle
    /\ CreateIdle

CallFindElement ==
    /\ fpc = "ready"
    /\ fpc' = "find_element"
    /\ fret' = find_element(property_map, session)
    /\ UNCHANGED <<property_map, session, timeout>>
    /\ UNCHANGED <<quitVars, winVars, capVars, createVars>>

CallWaitForElement ==
    /\ fpc = "ready"
    /\ \E tmoArg \in Timeouts :
        /\ timeout' = tmoArg
        /\ fret' = wait_for_element(property_map, tmoArg, session)
    /\ fpc' = "wait_for_element"
    /\ UNCHANGED <<property_map, session>>
    /\ UNCHANGED <<quitVars, winVars, capVars, createVars>>

NextFind == CallFindElement \/ CallWaitForElement

SpecFind == InitFind /\ [][NextFind]_vars

-----------------------------------------------------------------------------
(* Properties of locator resolution                                        *)

Locs == Get(property_map, "locators", <<>>)

RecognizedKinds == {"name", "id", "xpath", "class_name", "accessibility_id"}

EmptyOrAbsent(l) == "value" \notin DOMAIN l \/ l.value = ""

KindOf(l) == IF "type" \in DOMAIN l THEN Lower(l.type) ELSE ""

\* an entry the client can look up: recognized kind, non-empty value
Attemptable(l) == ~EmptyOrAbsent(l) /\ KindOf(l) \in RecognizedKinds

TargetOfEntry(l) == <<ByOf(KindOf(l)), l.value>>

\* entry i would resolve in the session as it is at the call
ResolvesNow(i) ==
    /\ Attemptable(Locs[i])
    /\ RemoteFind(session, TargetOfEntry(Locs[i]), 0) = "found"

\* the remote finds of the attemptable entries among the first k, in order
AttemptedTargets(k) ==
    LET sel == SelectSeq(SubSeq(Locs, 1, k), Attemptable)
    IN  [i \in 1..Len(sel) |-> TargetOfEntry(sel[i])]

FirstResolving == CHOOSE i \in 1..Len(Locs) :
    ResolvesNow(i) /\ \A j \in 1..(i - 1) : ~ResolvesNow(j)

\* C1: when some entry resolves, find_element returns the element of the first
\* such entry in list order, and issues no remote find for any later entry.
C1_FirstResolvableWins ==
    (fpc = "find_element" /\ \E i \in 1..Len(Locs) : ResolvesNow(i)) =>
        /\ fret.kind = "return"
        /\ fret.index = FirstResolving
        /\ fret.element = TargetOfEntry(Locs[FirstResolving])
        /\ fret.calls = AttemptedTargets(FirstResolving)

C1_Witness ==
    /\ fpc = "find_element"
    /\ fret.kind = "return"
    /\ \E i, j \in 1..Len(Locs) :
        /\ i < j /\ ResolvesNow(i) /\ ResolvesNow(j)
        /\ TargetOfEntry(Locs[i]) # TargetOfEntry(Locs[j])
        /\ fret.index = i

\* C2: a failing remote find never reaches find_element's caller: resolution goes
\* on to the next entry, and with every entry exhausted the one outcome is the
\* client's NoSuchElementException carrying the whole locator list.
C2_FailuresSwallowed ==
    fpc = "find_element" =>
        /\ fret.exc \in {"", "NoSuchElementException"}
        /\ fret.kind = "raise" <=> ~\E i \in 1..Len(Locs) : ResolvesNow(i)
        /\ fret.kind = "raise" =>
            /\ fret.exc = "NoSuchElementException"
            /\ fret.payload = Locs
            /\ fret.calls = AttemptedTargets(Len(Locs))
            /\ Len(fret.log) = Len(fret.calls)

C2_Witness ==
    /\ fpc = "find_element"
    /\ fret.kind = "raise"
    /\ Len(fret.payload) >= 2
    /\ \E k \in 1..Len(fret.log) : fret.log[k] = "selenium.WebDriverException"
    /\ \E i \in 1..Len(Locs) : EmptyOrAbsent(Locs[i])

FailsOnlyNotFound(i) ==
    /\ Attemptable(Locs[i])
    /\ TargetOfEntry(Locs[i]) \in DOMAIN session
    /\ session[TargetOfEntry(Locs[i])].st # "error"

\* C5: when no element resolved, wait_for_element fails with a timed-out outcome
\* once the one timeout has elapsed overall (one poll of slack), not a multiple
\* of it.
C5_WaitTimesOutOnce ==
    (/\ fpc = "wait_for_element"
     /\ fret.kind = "raise"
     /\ \E i \in 1..Len(Locs) : FailsOnlyNotFound(i)) =>
        /\ fret.exc \in {"TimeoutException", "selenium.TimeoutException"}
        /\ fret.elapsed <= EffectiveTimeout(timeout) + 1

-----------------------------------------------------------------------------
(* The facade's lifecycle                                                  *)

FindIdle ==
    /\ property_map = <<>>
    /\ session = [t \in Targets |-> [st |-> "never", at |-> 0]]
    /\ fpc = "ready"
    /\ timeout = <<>>
    /\ fret = NoRet

\* after WindowsDriver.__init__: a live session, with or without a service
InitQuit ==
    /\ service \in {"none", "running"}
    /\ remote = "open"
    /\ qop = "none"
    /\ qin = [body |-> "", dq |-> FALSE, ss |-> FALSE]
    /\ qcalls = <<>>
    /\ qret = Outcome("")
    /\ nops = 0
    /\ nquits = 0
    /\ FindIdle
    /\ WinIdle
    /\ CapIdle
    /\ CreateIdle

CallQuit ==
    /\ nops < MaxOps
    /\ \E dq, ss \in BOOLEAN :
        LET r == quit(service, dq, ss)
        IN  /\ qin' = [body |-> "", dq |-> dq, ss |-> ss]
            /\ qcalls' = r.calls
            /\ qret' = Outcome(r.exc)
            /\ remote' = RemoteAfter(remote, r.calls)
            /\ service' = ServiceAfter(service, r.calls)
    /\ qop' = "quit"
    /\ nops' = nops + 1
    /\ nquits' = nquits + 1
    /\ UNCHANGED <<findVars, winVars, capVars, createVars>>

WithBlock ==
    /\ nops < MaxOps
    /\ \E body \in {"", "AssertionError"}, dq, ss \in BOOLEAN :
        LET r == with_scope(service, body, dq, ss)
        IN  /\ qin' = [body |-> body, dq |-> dq, ss |-> ss]
            /\ qcalls' = r.calls
            /\ qret' = Outcome(r.exc)
            /\ remote' = RemoteAfter(remote, r.calls)
            /\ service' = ServiceAfter(service, r.calls)
    /\ qop' = "with"
    /\ nops' = nops + 1
    /\ nquits' = nquits + 1
    /\ UNCHANGED <<findVars, winVars, capVars, createVars>>

NextQuit == CallQuit \/ WithBlock

SpecQuit == InitQuit /\ [][NextQuit]_vars

\* C4: quit, called directly or by __exit__, always attempts driver.quit() and,
\* when a service is present, service.stop() as well, whatever either throws;
\* quit never raises, and the with statement ends with exactly the body's
\* exception (or none).
C4_QuitAttemptsBothNeverRaises ==
    qop \in {"quit", "with"} =>
        /\ qcalls[1] = Call("driver.quit", qin.dq)
        /\ service # "none" =>
            /\ Len(qcalls) = 2
            /\ qcalls[2] = Call("service.stop", qin.ss)
        /\ service = "none" => Len(qcalls) = 1
        /\ qop = "quit" => qret = [kind |-> "return", exc |-> ""]
        /\ qop = "with" => qret.exc = qin.body
        /\ qret.kind = "raise" <=> (qop = "with" /\ qin.body # "")

C4_Witness ==
    /\ qop = "with"
    /\ qin = [body |-> "AssertionError", dq |-> TRUE, ss |-> TRUE]
    /\ service = "running"
    /\ Len(qcalls) = 2
    /\ qret = [kind |-> "raise", exc |-> "AssertionError"]

-----------------------------------------------------------------------------
(* Window switching                                                        *)

Titles == {"Main Window", "Settings", "SETTINGS - Main"}
WindowNames == {"settings", "Main", "x"}

\* the session lists handle i at place i until windows are closed
WindowLists ==
    UNION {{[i \in 1..n |-> [handle |-> i, title |-> t[i]]] : t \in [1..n -> Titles]}
              : n \in 0..MaxWindows}

\* after WindowsClient.__init__: empty registry, no current window
InitWin ==
    /\ windows \in WindowLists
    /\ focus \in {NoWindow} \cup {windows[i].handle : i \in 1..Len(windows)}
    /\ window_handles = EmptyRegistry
    /\ current_window = None
    /\ wop = NoSwitch
    /\ wcalls = <<>>
    /\ wret = Outcome("")
    /\ FindIdle
    /\ QuitIdle
    /\ CapIdle
    /\ CreateIdle

CallSwitchToWindow ==
    /\ \E window_name \in WindowNames :
        LET r == switch_to_window(window_name, window_handles, current_window,
                                  windows, focus)
        IN  /\ wop' = [name |-> window_name, pre |-> window_handles,
                       wins |-> windows, fresh |-> TRUE]
            /\ window_handles' = r.reg
            /\ current_window' = r.cur
            /\ focus' = r.focus
            /\ wcalls' = r.calls
            /\ wret' = Outcome(r.exc)
    /\ UNCHANGED windows
    /\ UNCHANGED <<findVars, quitVars, capVars, createVars>>

\* the application closes one of its windows
CloseWindow ==
    /\ \E i \in 1..Len(windows) :
        /\ windows' = SubSeq(windows, 1, i - 1) \o SubSeq(windows, i + 1, Len(windows))
        /\ focus' = IF focus = windows[i].handle THEN NoWindow ELSE focus
    /\ wop' = [wop EXCEPT !.fresh = FALSE]
    /\ UNCHANGED <<window_handles, current_window, wcalls, wret>>
    /\ UNCHANGED <<findVars, quitVars, capVars, createVars>>

NextWin == CallSwitchToWindow \/ CloseWindow

SpecWin == InitWin /\ [][NextWin]_vars

\* C7: a call with a registered name makes one remote call, the switch to the
\* registered handle (no listing of handles, no other switch, no title read);
\* a registry entry, once written, is never changed or removed.
C7_RegisteredNameSwitchesDirectly ==
    /\ \A n \in DOMAIN wop.pre :
        n \in DOMAIN window_handles /\ window_handles[n] = wop.pre[n]
    /\ (wop.name # None /\ wop.name \in DOMAIN wop.pre) =>
        /\ wcalls = <<<<"switch_to.window", wop.pre[wop.name]>>>>
        /\ window_handles = wop.pre

C7_Witness ==
    /\ wop.fresh
    /\ wop.name \in DOMAIN wop.pre
    /\ Len(wop.wins) >= 2
    /\ wop.pre[wop.name] = wop.wins[2].handle
    /\ wret.kind = "return"
    /\ focus = wop.pre[wop.name]

\* the title holds the name as a substring, letter case ignored
ContainsIgnoringCase(title, name) ==
    \E i \in 1..(Len(title) - Len(name) + 1) :
        Lower(SubSeq(title, i, i + Len(name) - 1)) = Lower(name)

MatchingPlaces == {i \in 1..Len(wop.wins) : ContainsIgnoringCase(wop.wins[i].title, wop.name)}

FirstMatch == CHOOSE i \in MatchingPlaces : \A j \in MatchingPlaces : i <= j

\* the remote calls of a scan that stops at place k
ScanCalls(k) ==
    [j \in 1..(2 * k + 1) |->
        IF j = 1 THEN <<"window_handles", NoWindow>>
        ELSE IF j % 2 = 0 THEN <<"switch_to.window", wop.wins[j \div 2].handle>>
        ELSE <<"title", wop.wins[j \div 2].handle>>]

\* C8: for an unregistered name the call succeeds exactly when some open window's
\* title contains the name, case ignored; it then registers the first such
\* handle in listing order, stops scanning and leaves the session on that
\* window; otherwise it fails with window-not-found after trying every handle
\* and leaves the registry as it was.
C8_ScanRegistersFirstMatch ==
    (wop.fresh /\ wop.name \notin DOMAIN wop.pre) =>
        IF MatchingPlaces # {}
        THEN /\ wret = [kind |-> "return", exc |-> ""]
             /\ window_handles = Register(wop.pre, wop.name, wop.wins[FirstMatch].handle)
             /\ wcalls = ScanCalls(FirstMatch)
             /\ focus = wop.wins[FirstMatch].handle
        ELSE /\ wret = [kind |-> "raise", exc |-> "NoSuchWindowException"]
             /\ window_handles = wop.pre
             /\ wcalls = ScanCalls(Len(wop.wins))

C8_Witness ==
    /\ wop.fresh
    /\ wop.name = "settings"
    /\ wop.name \notin DOMAIN wop.pre
    /\ Len(wop.wins) = 2
    /\ wop.wins[1].title = "Main Window"
    /\ wop.wins[2].title = "Settings"
    /\ window_handles["settings"] = wop.wins[2].handle
    /\ focus = wop.wins[2].handle

-----------------------------------------------------------------------------
(* Capability normalization                                                *)

CapKeys ==
    {"platformName", "appium:platformName", "appium:automationName", "deviceName",
     "app", "appium:appTopLevelWindow", "ms:deviceNameHint", "ms:waitForAppLaunch",
     "appappium:ium:ms:x"}

CapValues == {"Windows", "other"}

\* desiredCapabilities in insertion order, its keys distinct
CapLists ==
    {l \in UNION {[1..n -> [key : CapKeys, value : CapValues]] : n \in 0..MaxCaps} :
        \A i, j \in 1..Len(l) : i # j => l[i].key # l[j].key}

\* a dict from the fields that are present (None: the key is absent)
Fields(appPath, grid, desired) ==
    [k \in {f \in {"appPath"} : appPath # None}
            \cup {f \in {"grid"} : grid # None}
            \cup {"desiredCapabilities"} |->
        CASE k = "appPath" -> appPath
          [] k = "grid" -> [hubUrl |-> grid]
          [] OTHER -> desired]

Configs ==
    {[desktopDevice |-> Fields(a, g, d)] :
        a \in {None, "X.exe"}, g \in {None, "http://hub:4723"}, d \in CapLists}
        \cup {<<>>}

InitCaps ==
    /\ req \in Configs
    /\ cpc = "ready"
    /\ cret = [caps |-> NoCaps, hub_url |-> ""]
    /\ cagain = [caps |-> NoCaps, hub_url |-> ""]
    /\ FindIdle
    /\ QuitIdle
    /\ WinIdle
    /\ CreateIdle

CallGetWindowsCapabilities ==
    /\ cpc = "ready"
    /\ cpc' = "done"
    /\ cret' = get_windows_capabilities(req)
    /\ UNCHANGED <<req, cagain>>
    /\ UNCHANGED <<findVars, quitVars, winVars, createVars>>

\* the returned options.capabilities go back in as desiredCapabilities of a
\* configuration with the same appPath and grid
CallNormalizeAgain ==
    /\ cpc = "done"
    /\ cpc' = "again"
    /\ cagain' = get_windows_capabilities(FedBack(req, cret.caps))
    /\ UNCHANGED <<req, cret>>
    /\ UNCHANGED <<findVars, quitVars, winVars, createVars>>

NextCaps == CallGetWindowsCapabilities \/ CallNormalizeAgain

SpecCaps == InitCaps /\ [][NextCaps]_vars

Desired == Get(Get(req, "desktopDevice", <<>>), "desiredCapabilities", <<>>)
AppPath == Get(Get(req, "desktopDevice", <<>>), "appPath", "")

\* the places where the caller supplies capability `name`, bare or prefixed
Supplying(name) ==
    {i \in 1..Len(Desired) : Desired[i].key \in {name, "appium:" \o name}}

LastSupplied(name) ==
    Desired[CHOOSE i \in Supplying(name) : \A j \in Supplying(name) : j <= i].value

IdentityDefault(name) ==
    CASE name = "platformName" -> "Windows"
      [] name = "automationName" -> "Windows"
      [] name = "deviceName" -> "WindowsPC"

\* C9: each of platformName, automationName and deviceName is in the returned
\* set under its bare key, with the caller's value when the caller supplies it
\* (bare or appium:-prefixed) and the default otherwise, whatever other keys the
\* caller gives; no prefixed twin is stored.
C9_IdentityCapabilities ==
    cpc = "done" =>
        \A name \in {"platformName", "automationName", "deviceName"} :
            /\ name \in DOMAIN cret.caps
            /\ ("appium:" \o name) \notin DOMAIN cret.caps
            /\ cret.caps[name] =
                IF Supplying(name) # {} THEN LastSupplied(name)
                ELSE IdentityDefault(name)

\* C10: a configuration that supplies an appPath, an app capability or an
\* appTopLevelWindow capability yields exactly one of app and appTopLevelWindow
\* (stated for the callers whose own capabilities do not name both).
C10_ExactlyOneAppTarget ==
    (/\ cpc = "done"
     /\ \/ AppPath # ""
        \/ Supplying("app") # {}
        \/ Supplying("appTopLevelWindow") # {}
     /\ ~(Supplying("app") # {} /\ Supplying("appTopLevelWindow") # {})) =>
        ("app" \in DOMAIN cret.caps) # ("appTopLevelWindow" \in DOMAIN cret.caps)

\* C13: normalization is idempotent: the returned capability set, fed back in
\* as the desiredCapabilities of a configuration with the same appPath and
\* normalized again, yields the same keys and values.
C13_NormalizationIdempotent ==
    cpc = "again" => cagain.caps = cret.caps

-----------------------------------------------------------------------------
(* The facade in use: actions, quit, actions after quit                    *)

FacadeObjs ==
    {[locators |-> <<[type |-> "name", value |-> "A"]>>],
     [locators |-> <<[type |-> "id", value |-> "A"], [type |-> "bogus", value |-> "A"]>>]}

Filenames == {None, "shot.png"}

CallFacadeOp ==
    /\ nops < MaxOps
    /\ \E op \in FacadeOps, obj \in FacadeObjs, filename \in Filenames :
        LET r == facade_op(op, obj, filename, remote)
        IN  /\ qop' = op
            /\ qin' = [obj |-> obj, filename |-> filename]
            /\ qcalls' = r.calls
            /\ qret' = [kind |-> IF r.exc = "" THEN "return" ELSE "raise",
                        exc |-> r.exc, value |-> r.value]
    /\ nops' = nops + 1
    /\ UNCHANGED <<service, remote, nquits>>
    /\ UNCHANGED <<findVars, winVars, capVars, createVars>>

NextFacade == CallQuit \/ WithBlock \/ CallFacadeOp

SpecFacade == InitQuit /\ [][NextFacade]_vars

\* the last operation ran on a facade that quit() had already been called on
AfterQuit ==
    IF qop \in {"quit", "with"} THEN nquits >= 2
    ELSE qop \in FacadeOps /\ nquits >= 1

\* C11: once quit has been called, no later operation of the facade (an action,
\* a second quit, a scope exit) calls the released session or stops the service
\* again.
C11_NoCallAfterQuit ==
    AfterQuit => qcalls = <<>>

\* C12: a facade action completes with exactly the outcome of the client
\* operation of the same name (its remote calls, its exception or value) and
\* never fails in the delegation itself.
C12_FacadeDelegates ==
    qop \in FacadeOps =>
        LET c == client_op(qop, qin.obj, qin.filename, remote)
        IN  /\ qcalls = c.calls
            /\ qret.exc = c.exc
            /\ qret.value = c.value

-----------------------------------------------------------------------------
(* Creating the driver                                                     *)

InitCreate ==
    /\ req \in Configs
    /\ cpc = "ready"
    /\ cret = [caps |-> NoCaps, hub_url |-> ""]
    /\ cagain = [caps |-> NoCaps, hub_url |-> ""]
    /\ CreateIdle
    /\ FindIdle
    /\ QuitIdle
    /\ WinIdle

CallCreateWindowsDriver ==
    /\ kpc = "ready"
    /\ \E remoteOk, waitOk \in BOOLEAN :
        LET r == create_windows_driver(req, remoteOk, waitOk)
        IN  /\ kin' = [remoteOk |-> remoteOk, waitOk |-> waitOk]
            /\ kcalls' = r.calls
            /\ kret' = [kind |-> IF r.exc = "" THEN "return" ELSE "raise",
                        exc |-> r.exc, facade |-> r.facade]
            /\ ksession' = SessionAfter(r.calls)
    /\ kpc' = "done"
    /\ UNCHANGED <<findVars, quitVars, winVars, capVars>>

NextCreate == CallCreateWindowsDriver

SpecCreate == InitCreate /\ [][NextCreate]_vars

\* C14: whenever create_windows_driver raises, no remote session is left open:
\* a session that was already created is quit before the failure propagates.
C14_FailedCreateLeavesNoSession ==
    (kpc = "done" /\ kret.kind = "raise") => ksession # "open"

====
